---- MODULE Spec2Model ----
(***************************************************************************)
(* A model of stanley-lib (src/stanley-lib/src/lib.rs): the MIR pass       *)
(* StanleyMir::run_pass that reads a function's `pre`/`post` annotation,   *)
(* parses both conditions, resolves their variable types against the       *)
(* function's MIR data, type-checks them and calls the solver driver       *)
(* gen_smtlib.  The modules `ast` and `condition_parser` (lib.rs:15-16)    *)
(* are not part of the sources at hand; ParseCondition's grammar, TyCheck  *)
(* and TypeToEnum follow their description in the specification.           *)
(***************************************************************************)
EXTENDS Integers, Sequences, FiniteSets, TLC

(***************************************************************************)
(* Bounds of the model.                                                    *)
(***************************************************************************)
\* Number of functions the compiler hands to the pass, one after the other.
NumFns == 2
\* The solver searches integer values 0..MaxVal for its constants.
MaxVal == 7

FnIds == 1..NumFns

(***************************************************************************)
(* ast::Expression and ast::Types, as lib.rs uses them.                    *)
(***************************************************************************)
Types == {"Int", "Bool", "Unknown"}

VariableMapping(n, t) == [kind |-> "VariableMapping", name |-> n, ty |-> t]
BinaryExpression(l, o, r) ==
    [kind |-> "BinaryExpression", left |-> l, op |-> o, right |-> r]
UnaryExpression(o, e) == [kind |-> "UnaryExpression", op |-> o, operand |-> e]
IntegerLiteral(v) == [kind |-> "IntegerLiteral", int |-> v]
BooleanLiteral(b) == [kind |-> "BooleanLiteral", bool |-> b]

\* The value a local holds before it is assigned, and the unwinding marker.
NoExpr == [kind |-> "none"]
Panic == [kind |-> "panic"]

(***************************************************************************)
(* condition_parser::parse_Condition.  A condition string is modelled as   *)
(* its sequence of tokens; the empty string is the empty sequence.         *)
(***************************************************************************)
IntLits == {"0", "1", "10"}
IntVal(t) == CASE t = "0" -> 0 [] t = "1" -> 1 [] t = "10" -> 10
BoolLits == {"true", "false"}
Idents == {"x", "y", "z", "v", "b", "ret", "_t0"}

UnaryOps == {"!", "-"}
\* Binary operators by binding strength, loosest first.
UnaryLevel == 8
OpsAt(l) ==
    CASE l = 1 -> {"=>"}
      [] l = 2 -> {"||"}
      [] l = 3 -> {"&&"}
      [] l = 4 -> {"==", "!="}
      [] l = 5 -> {"<", "<=", ">", ">="}
      [] l = 6 -> {"+", "-"}
      [] l = 7 -> {"*", "/", "%"}
      [] OTHER -> {}

ParseFail == [ok |-> FALSE]
ParseOk(e, rest) == [ok |-> TRUE, e |-> e, rest |-> rest]

RECURSIVE ParseLevel(_, _), ParseRest(_, _, _)

ParseAtom(ts) ==
    IF ts = <<>> THEN ParseFail
    ELSE LET t == Head(ts) IN
         IF t \in IntLits THEN ParseOk(IntegerLiteral(IntVal(t)), Tail(ts))
         ELSE IF t \in BoolLits THEN ParseOk(BooleanLiteral(t = "true"), Tail(ts))
         ELSE IF t \in Idents THEN ParseOk(VariableMapping(t, "Unknown"), Tail(ts))
         ELSE IF t = "("
              THEN LET r == ParseLevel(1, Tail(ts)) IN
                   IF r.ok /\ r.rest # <<>> /\ Head(r.rest) = ")"
                   THEN ParseOk(r.e, Tail(r.rest))
                   ELSE ParseFail
         ELSE ParseFail

ParseLevel(l, ts) ==
    IF l = UnaryLevel
    THEN IF ts # <<>> /\ Head(ts) \in UnaryOps
         THEN LET r == ParseLevel(UnaryLevel, Tail(ts)) IN
              IF r.ok THEN ParseOk(UnaryExpression(Head(ts), r.e), r.rest)
              ELSE ParseFail
         ELSE ParseAtom(ts)
    ELSE LET r == ParseLevel(l + 1, ts) IN
         IF r.ok THEN ParseRest(l, r.e, r.rest) ELSE ParseFail

ParseRest(l, left, ts) ==
    IF ts # <<>> /\ Head(ts) \in OpsAt(l)
    THEN LET r == ParseLevel(l + 1, Tail(ts)) IN
         IF r.ok
         THEN ParseRest(l, BinaryExpression(left, Head(ts), r.e), r.rest)
         ELSE ParseFail
    ELSE ParseOk(left, ts)

\* parse_Condition: Ok(tree) when the whole string is one condition.
ParseCondition(s) ==
    LET r == ParseLevel(1, s) IN
    IF r.ok /\ r.rest = <<>> THEN [ok |-> TRUE, e |-> r.e] ELSE ParseFail

(***************************************************************************)
(* ast::type_to_enum and ast::ty_check.                                    *)
(***************************************************************************)
TypeToEnum(ty) ==
    CASE ty = "i32" -> "Int"
      [] ty = "bool" -> "Bool"
      [] OTHER -> "Unknown"

TyOk(t) == [ok |-> TRUE, ty |-> t]
TyErr(m) == [ok |-> FALSE, err |-> m]

RECURSIVE TyOf(_)
TyOf(e) ==
    CASE e.kind = "IntegerLiteral" -> TyOk("Int")
      [] e.kind = "BooleanLiteral" -> TyOk("Bool")
      [] e.kind = "VariableMapping" ->
            IF e.ty = "Unknown" THEN TyErr("Unknown") ELSE TyOk(e.ty)
      [] e.kind = "UnaryExpression" ->
            LET r == TyOf(e.operand) IN
            IF ~r.ok THEN r
            ELSE IF e.op = "!"
                 THEN IF r.ty = "Bool" THEN TyOk("Bool") ELSE TyErr("Mismatch")
                 ELSE IF r.ty = "Int" THEN TyOk("Int") ELSE TyErr("Mismatch")
      [] e.kind = "BinaryExpression" ->
            LET l == TyOf(e.left)
                r == TyOf(e.right) IN
            IF ~l.ok THEN l
            ELSE IF ~r.ok THEN r
            ELSE IF e.op \in OpsAt(6) \cup OpsAt(7)
                 THEN IF l.ty = "Int" /\ r.ty = "Int"
                      THEN TyOk("Int") ELSE TyErr("Mismatch")
            ELSE IF e.op \in OpsAt(5)
                 THEN IF l.ty = "Int" /\ r.ty = "Int"
                      THEN TyOk("Bool") ELSE TyErr("Mismatch")
            ELSE IF e.op \in OpsAt(4)
                 THEN IF l.ty = r.ty THEN TyOk("Bool") ELSE TyErr("Mismatch")
            ELSE IF l.ty = "Bool" /\ r.ty = "Bool"
                 THEN TyOk("Bool") ELSE TyErr("Mismatch")

\* ty_check on a whole pre- or postcondition: the root must be Bool.
TyCheck(e) ==
    LET r == TyOf(e) IN
    IF r.ok /\ r.ty # "Bool" THEN TyErr("NotBoolean") ELSE r

(***************************************************************************)
(* What the compiler hands to the pass for one function: its attributes    *)
(* (tcx.map.attrs) and its MIR (arguments, variables, temporaries, return  *)
(* type, basic blocks).  A block is modelled by the set of its successors. *)
(***************************************************************************)
\* LocalDecl.name of a local without a name (Option::None).
NoName == "<none>"

LocalDecl(n, t) == [name |-> n, ty |-> t]
Word == [kind |-> "Word"]
List(items) == [kind |-> "List", items |-> items]
NameValueStr(n, v) == [kind |-> "NameValueStr", name |-> n, value |-> v]
NameValueInt(n) == [kind |-> "NameValueInt", name |-> n]

Function(n, attrs, args, vars, temps, ret, blocks) ==
    [name |-> n, attrs |-> attrs, args |-> args, vars |-> vars,
     temps |-> temps, return_ty |-> ret, blocks |-> blocks]

Straight == << {} >>
Branch == << {2, 3}, {}, {} >>
Loop == << {2}, {2, 3}, {} >>

XPos == << "x", ">", "0" >>
RetPos == << "ret", ">", "0" >>
True == << "true" >>
X == << LocalDecl("x", "i32") >>
Tmp == << LocalDecl(NoName, "i32") >>

Catalogue ==
    { Function("plain", << Word >>, X, <<>>, Tmp, "i32", Straight),
      Function("sub_ten",
               << Word, List(<< NameValueStr("pre", XPos),
                                NameValueStr("post", RetPos) >>) >>,
               X, <<>>, Tmp, "i32", Straight),
      Function("no_pre", << List(<< NameValueStr("post", RetPos) >>) >>,
               X, <<>>, Tmp, "i32", Straight),
      Function("no_post", << List(<< NameValueStr("pre", XPos), Word,
                                     NameValueInt("post") >>) >>,
               X, <<>>, Tmp, "i32", Straight),
      Function("empty_pre",
               << List(<< NameValueStr("pre", <<>>),
                          NameValueStr("post", True) >>) >>,
               X, <<>>, Tmp, "i32", Straight),
      Function("bogus",
               << List(<< NameValueStr("post", True),
                          NameValueStr("invariant", True) >>) >>,
               X, <<>>, Tmp, "i32", Straight),
      Function("bad_parse",
               << List(<< NameValueStr("pre", << "x", ">" >>),
                          NameValueStr("post", RetPos) >>) >>,
               X, <<>>, Tmp, "i32", Straight),
      Function("unknown_var",
               << List(<< NameValueStr("pre", << "z", ">", "0" >>),
                          NameValueStr("post", RetPos) >>) >>,
               X, <<>>, Tmp, "i32", Straight),
      Function("local_var",
               << List(<< NameValueStr("pre", XPos) >>),
                  List(<< NameValueStr("post", << "v", ">", "0" >>) >>) >>,
               X, << LocalDecl("v", "i32") >>, Tmp, "i32", Straight),
      Function("looping",
               << List(<< NameValueStr("pre", XPos),
                          NameValueStr("post", RetPos) >>) >>,
               X, << LocalDecl("v", "i32") >>, Tmp, "i32", Loop),
      Function("true_post",
               << List(<< NameValueStr("pre", XPos),
                          NameValueStr("post", True) >>) >>,
               X, <<>>, Tmp, "i32", Branch),
      Function("not_bool",
               << List(<< NameValueStr("pre", << "x", "+", "1" >>),
                          NameValueStr("post", True) >>) >>,
               X, <<>>, Tmp, "i32", Straight),
      Function("ret_arg",
               << List(<< NameValueStr("pre", True),
                          NameValueStr("post", RetPos) >>) >>,
               << LocalDecl("ret", "bool") >>, <<>>, Tmp, "i32", Straight),
      Function("unnamed_arg",
               << List(<< NameValueStr("pre", XPos),
                          NameValueStr("post", True) >>) >>,
               << LocalDecl(NoName, "i32"), LocalDecl("x", "i32") >>,
               <<>>, Tmp, "i32", Straight),
      Function("unnamed_last",
               << List(<< NameValueStr("pre", XPos),
                          NameValueStr("post", RetPos) >>) >>,
               << LocalDecl("x", "i32"), LocalDecl(NoName, "i32") >>,
               <<>>, Tmp, "i32", Straight),
      Function("bool_arg",
               << List(<< NameValueStr("pre", << "!", "b" >>),
                          NameValueStr("post",
                              << "b", "||", "ret", ">", "0" >>) >>) >>,
               << LocalDecl("b", "bool") >>, <<>>, Tmp, "i32", Branch) }

(***************************************************************************)
(* parse_attributes (lib.rs:185-209).                                      *)
(***************************************************************************)
RECURSIVE Items(_)
\* The items of the List attributes, in source order: the two outer loops.
Items(attrs) ==
    IF attrs = <<>> THEN <<>>
    ELSE (IF Head(attrs).kind = "List" THEN Head(attrs).items ELSE <<>>)
         \o Items(Tail(attrs))

RECURSIVE ParseItems(_, _, _)
ParseItems(items, pre, post) ==
    IF items = <<>> THEN [panic |-> FALSE, pre |-> pre, post |-> post]
    ELSE LET it == Head(items) IN
         IF it.kind # "NameValueStr" THEN ParseItems(Tail(items), pre, post)
         ELSE IF it.name = "pre" THEN ParseItems(Tail(items), it.value, post)
         ELSE IF it.name = "post" THEN ParseItems(Tail(items), pre, it.value)
         ELSE [panic |-> TRUE, pre |-> pre, post |-> post]

ParseAttributes(attrs) == ParseItems(Items(attrs), <<>>, <<>>)

(***************************************************************************)
(* get_argument_type (lib.rs:135-145) and walk_and_replace (147-176).      *)
(***************************************************************************)
TyPanic == "<panic>"

RECURSIVE ArgLoop(_, _)
ArgLoop(name, args) ==
    IF args = <<>> THEN "Unknown"
    ELSE IF Head(args).name = NoName THEN TyPanic
    ELSE IF name = Head(args).name THEN TypeToEnum(Head(args).ty)
    ELSE ArgLoop(name, Tail(args))

\* A lookup that also searches the declared variables.
GetArgumentTypeOrVariable(name, data) ==
    ArgLoop(name, data.arg_data \o data.var_data)

GetArgumentType(name, data) == ArgLoop(name, data.arg_data)

RECURSIVE WalkAndReplace(_, _)
WalkAndReplace(expression, data) ==
    CASE expression.kind = "VariableMapping" ->
            LET bb == IF expression.ty = "Unknown"
                      THEN IF expression.name = "ret"
                           THEN TypeToEnum(data.func_return_type)
                           ELSE GetArgumentType(expression.name, data)
                      ELSE expression.ty
            IN IF bb = TyPanic THEN Panic
               ELSE VariableMapping(expression.name, bb)
      [] expression.kind = "BinaryExpression" ->
            LET aa == WalkAndReplace(expression.left, data)
                ca == WalkAndReplace(expression.right, data)
            IN IF aa = Panic \/ ca = Panic THEN Panic
               ELSE BinaryExpression(aa, expression.op, ca)
      [] expression.kind = "UnaryExpression" ->
            LET ba == WalkAndReplace(expression.operand, data)
            IN IF ba = Panic THEN Panic
               ELSE UnaryExpression(expression.op, ba)
      [] OTHER -> expression

\* MirData as run_pass fills it (lib.rs:56-78).
MirData(f) ==
    [block_data |-> f.blocks, arg_data |-> f.args, var_data |-> f.vars,
     temp_data |-> f.temps, func_return_type |-> f.return_ty]
NoData ==
    [block_data |-> <<>>, arg_data |-> <<>>, var_data |-> <<>>,
     temp_data |-> <<>>, func_return_type |-> "none"]

(***************************************************************************)
(* The solver (crate z3) as gen_smtlib uses it (lib.rs:112-133).  Terms    *)
(* are trees; a context holds its declared constants and the assertions of *)
(* its solver.  Satisfiability is decided by search over 0..MaxVal.        *)
(***************************************************************************)
zero == 0
two == 2
seven == 7

Const(n) == [t |-> "const", name |-> n]
Num(v) == [t |-> "num", val |-> v]
Gt(a, b) == [t |-> "gt", a |-> a, b |-> b]
Eq(a, b) == [t |-> "eq", a |-> a, b |-> b]
Rem(a, b) == [t |-> "rem", a |-> a, b |-> b]
Add(a, b) == [t |-> "add", a |-> a, b |-> b]

\* The four terms gen_smtlib asserts, in order (lib.rs:123-126).
GenAssertions ==
    << Gt(Const("x"), Const("y")),
       Gt(Const("y"), Num(zero)),
       Eq(Rem(Const("y"), Num(seven)), Num(two)),
       Gt(Add(Const("x"), Num(two)), Num(seven)) >>
GenConsts == {"x", "y"}

RECURSIVE Eval(_, _)
Eval(term, m) ==
    CASE term.t = "const" -> m[term.name]
      [] term.t = "num" -> term.val
      [] term.t = "gt" -> Eval(term.a, m) > Eval(term.b, m)
      [] term.t = "eq" -> Eval(term.a, m) = Eval(term.b, m)
      [] term.t = "rem" -> Eval(term.a, m) % Eval(term.b, m)
      [] term.t = "add" -> Eval(term.a, m) + Eval(term.b, m)

\* The models of a context: the values of its constants that satisfy every
\* assertion of its solver.
Models(c) ==
    { m \in [c.consts -> 0..MaxVal] :
        \A k \in 1..Len(c.assertions) : Eval(c.assertions[k], m) }

(***************************************************************************)
(* State.  The compiler calls run_pass once per function, in order; the    *)
(* locals of the call for function i are the i-th components.              *)
(***************************************************************************)
VARIABLES
    fns,                     \* the functions of the crate, in pass order
    pc,                      \* where the call of run_pass for each function is
    panic,                   \* the panic that ended the call, or "none"
    pre_string,              \* lib.rs:47
    post_string,
    pre_string_expression,   \* lib.rs:53, 80
    post_string_expression,  \* lib.rs:54, 81
    data,                    \* lib.rs:56
    ctx,                     \* gen_smtlib's context (lib.rs:114), 0 if none
    asserted,                \* how many of lib.rs:123-126 the call has made
    ctxs,                    \* the live solver contexts, by identity
    nextCtx,                 \* the identity the next context gets
    verdict,                 \* what solver.check() found (lib.rs:127)
    model,                   \* solver.get_model() (lib.rs:129)
    out                      \* standard output

vars == << fns, pc, panic, pre_string, post_string, pre_string_expression,
           post_string_expression, data, ctx, asserted, ctxs, nextCtx,
           verdict, model, out >>

NoModel == [x |-> -1, y |-> -1]

InitLocals ==
    /\ pc = [i \in FnIds |-> "start"]
    /\ panic = [i \in FnIds |-> "none"]
    /\ pre_string = [i \in FnIds |-> <<>>]
    /\ post_string = [i \in FnIds |-> <<>>]
    /\ pre_string_expression = [i \in FnIds |-> NoExpr]
    /\ post_string_expression = [i \in FnIds |-> NoExpr]
    /\ data = [i \in FnIds |-> NoData]
    /\ ctx = [i \in FnIds |-> 0]
    /\ asserted = [i \in FnIds |-> 0]
    /\ ctxs = << >>
    /\ nextCtx = 1
    /\ verdict = [i \in FnIds |-> "none"]
    /\ model = [i \in FnIds |-> NoModel]
    /\ out = << >>

Init ==
    /\ fns \in [FnIds -> Catalogue]
    /\ InitLocals

\* A panic unwinds out of run_pass.
Unwind(i, why) ==
    /\ pc' = [pc EXCEPT ![i] = "panicked"]
    /\ panic' = [panic EXCEPT ![i] = why]

Goto(i, where) ==
    /\ pc' = [pc EXCEPT ![i] = where]
    /\ UNCHANGED panic

\* lib.rs:47: parse_attributes, which panics on a parameter it does not know.
ParseAttrs(i) ==
    /\ pc[i] = "start"
    /\ LET r == ParseAttributes(fns[i].attrs) IN
       IF r.panic
       THEN /\ Unwind(i, "parse_attributes")
            /\ UNCHANGED << pre_string, post_string >>
       ELSE /\ Goto(i, "check_empty")
            /\ pre_string' = [pre_string EXCEPT ![i] = r.pre]
            /\ post_string' = [post_string EXCEPT ![i] = r.post]
    /\ UNCHANGED << fns, pre_string_expression, post_string_expression, data,
                    ctx, asserted, ctxs, nextCtx, verdict, model, out >>

\* lib.rs:49-51.
EarlyReturn(i) ==
    /\ pc[i] = "check_empty"
    /\ IF pre_string[i] = <<>> \/ post_string[i] = <<>>
       THEN Goto(i, "returned")
       ELSE Goto(i, "parse_pre")
    /\ UNCHANGED << fns, pre_string, post_string, pre_string_expression,
                    post_string_expression, data, ctx, asserted, ctxs,
                    nextCtx, verdict, model, out >>

\* lib.rs:53 with parse_condition (178-183), which panics on Err.
ParsePre(i) ==
    /\ pc[i] = "parse_pre"
    /\ LET r == ParseCondition(pre_string[i]) IN
       IF r.ok
       THEN /\ Goto(i, "parse_post")
            /\ pre_string_expression' =
                   [pre_string_expression EXCEPT ![i] = r.e]
       ELSE /\ Unwind(i, "parse_condition")
            /\ UNCHANGED pre_string_expression
    /\ UNCHANGED << fns, pre_string, post_string, post_string_expression,
                    data, ctx, asserted, ctxs, nextCtx, verdict, model, out >>

\* lib.rs:54.
ParsePost(i) ==
    /\ pc[i] = "parse_post"
    /\ LET r == ParseCondition(post_string[i]) IN
       IF r.ok
       THEN /\ Goto(i, "collect")
            /\ post_string_expression' =
                   [post_string_expression EXCEPT ![i] = r.e]
       ELSE /\ Unwind(i, "parse_condition")
            /\ UNCHANGED post_string_expression
    /\ UNCHANGED << fns, pre_string, post_string, pre_string_expression,
                    data, ctx, asserted, ctxs, nextCtx, verdict, model, out >>

\* lib.rs:56-78.
Collect(i) ==
    /\ pc[i] = "collect"
    /\ data' = [data EXCEPT ![i] = MirData(fns[i])]
    /\ Goto(i, "resolve_pre")
    /\ UNCHANGED << fns, pre_string, post_string, pre_string_expression,
                    post_string_expression, ctx, asserted, ctxs, nextCtx,
                    verdict, model, out >>

\* lib.rs:80; arg.name.unwrap() (137) panics on an argument without a name.
ResolvePre(i) ==
    /\ pc[i] = "resolve_pre"
    /\ LET e == WalkAndReplace(pre_string_expression[i], data[i]) IN
       IF e = Panic
       THEN /\ Unwind(i, "unwrap_name")
            /\ UNCHANGED pre_string_expression
       ELSE /\ Goto(i, "resolve_post")
            /\ pre_string_expression' = [pre_string_expression EXCEPT ![i] = e]
    /\ UNCHANGED << fns, pre_string, post_string, post_string_expression,
                    data, ctx, asserted, ctxs, nextCtx, verdict, model, out >>

\* lib.rs:81.
ResolvePost(i) ==
    /\ pc[i] = "resolve_post"
    /\ LET e == WalkAndReplace(post_string_expression[i], data[i]) IN
       IF e = Panic
       THEN /\ Unwind(i, "unwrap_name")
            /\ UNCHANGED post_string_expression
       ELSE /\ Goto(i, "ty_check_pre")
            /\ post_string_expression' =
                   [post_string_expression EXCEPT ![i] = e]
    /\ UNCHANGED << fns, pre_string, post_string, pre_string_expression,
                    data, ctx, asserted, ctxs, nextCtx, verdict, model, out >>

\* lib.rs:83: ast::ty_check(..).unwrap() panics on Err.
TyCheckPre(i) ==
    /\ pc[i] = "ty_check_pre"
    /\ IF TyCheck(pre_string_expression[i]).ok
       THEN Goto(i, "ty_check_post")
       ELSE Unwind(i, "ty_check")
    /\ UNCHANGED << fns, pre_string, post_string, pre_string_expression,
                    post_string_expression, data, ctx, asserted, ctxs,
                    nextCtx, verdict, model, out >>

\* A call that drops the result of the second ty_check.
TyCheckPostIgnored(i) ==
    /\ pc[i] = "ty_check_post"
    /\ Goto(i, "gen_smtlib")
    /\ UNCHANGED << fns, pre_string, post_string, pre_string_expression,
                    post_string_expression, data, ctx, asserted, ctxs,
                    nextCtx, verdict, model, out >>

\* lib.rs:84.
TyCheckPost(i) ==
    /\ pc[i] = "ty_check_post"
    /\ IF TyCheck(post_string_expression[i]).ok
       THEN Goto(i, "gen_smtlib")
       ELSE Unwind(i, "ty_check")
    /\ UNCHANGED << fns, pre_string, post_string, pre_string_expression,
                    post_string_expression, data, ctx, asserted, ctxs,
                    nextCtx, verdict, model, out >>

(***************************************************************************)
(* gen_smtlib (lib.rs:112-133), called at lib.rs:105.  Its parameters      *)
(* `expression` and `name` are never read.                                 *)
(***************************************************************************)
\* A context taken from those alive, a new one only when there is none.
ContextShared ==
    IF DOMAIN ctxs = {} THEN nextCtx ELSE CHOOSE c \in DOMAIN ctxs : TRUE

\* Context::new (lib.rs:114) makes a context of its own.
ContextNew == nextCtx

\* lib.rs:113-122: the configuration, the context, its constants, the solver.
GenNewContext(i) ==
    /\ pc[i] = "gen_smtlib"
    /\ LET c == ContextNew IN
       /\ ctx' = [ctx EXCEPT ![i] = c]
       /\ ctxs' = ctxs @@ (c :> [consts |-> GenConsts, assertions |-> << >>])
    /\ nextCtx' = nextCtx + 1
    /\ asserted' = [asserted EXCEPT ![i] = 0]
    /\ Goto(i, "assert")
    /\ UNCHANGED << fns, pre_string, post_string, pre_string_expression,
                    post_string_expression, data, verdict, model, out >>

\* lib.rs:123-126, one solver.assert at a time.
SolverAssert(i) ==
    /\ pc[i] = "assert"
    /\ asserted[i] < Len(GenAssertions)
    /\ ctxs' = [ctxs EXCEPT ![ctx[i]].assertions =
                   Append(@, GenAssertions[asserted[i] + 1])]
    /\ asserted' = [asserted EXCEPT ![i] = @ + 1]
    /\ IF asserted[i] + 1 = Len(GenAssertions)
       THEN Goto(i, "check")
       ELSE Goto(i, "assert")
    /\ UNCHANGED << fns, pre_string, post_string, pre_string_expression,
                    post_string_expression, data, ctx, nextCtx, verdict,
                    model, out >>

\* The contexts left when the call for i drops its own.
Dropped(i) == [c \in DOMAIN ctxs \ {ctx[i]} |-> ctxs[c]]

\* lib.rs:127: assert!(solver.check()).  check() is true on sat alone; the
\* solver may also give up (unknown).
SolverCheck(i) ==
    /\ pc[i] = "check"
    /\ \E v \in {IF Models(ctxs[ctx[i]]) = {} THEN "unsat" ELSE "sat",
                 "unknown"} :
          /\ verdict' = [verdict EXCEPT ![i] = v]
          /\ IF v = "sat"
             THEN /\ Goto(i, "get_model")
                  /\ UNCHANGED << ctx, ctxs >>
             ELSE /\ Unwind(i, "assert_check")
                  /\ ctxs' = Dropped(i)
                  /\ ctx' = [ctx EXCEPT ![i] = 0]
    /\ UNCHANGED << fns, pre_string, post_string, pre_string_expression,
                    post_string_expression, data, asserted, nextCtx, model,
                    out >>

\* lib.rs:129-133: the model's x and y are printed; the locals are dropped.
GetModel(i) ==
    /\ pc[i] = "get_model"
    /\ \E m \in Models(ctxs[ctx[i]]) :
          /\ model' = [model EXCEPT ![i] = [x |-> m["x"], y |-> m["y"]]]
          /\ out' = Append(out, [line |-> "model", x |-> m["x"], y |-> m["y"]])
    /\ ctxs' = Dropped(i)
    /\ ctx' = [ctx EXCEPT ![i] = 0]
    /\ Goto(i, "println")
    /\ UNCHANGED << fns, pre_string, post_string, pre_string_expression,
                    post_string_expression, data, asserted, nextCtx, verdict >>

\* lib.rs:108-109.
Println(i) ==
    /\ pc[i] = "println"
    /\ out' = Append(out, [line |-> "blank", x |-> 0, y |-> 0])
    /\ Goto(i, "returned")
    /\ UNCHANGED << fns, pre_string, post_string, pre_string_expression,
                    post_string_expression, data, ctx, asserted, ctxs,
                    nextCtx, verdict, model >>

(***************************************************************************)
(* The pass runs on one function after the other; a panic in run_pass is   *)
(* caught nowhere in lib.rs and ends the compilation.                      *)
(***************************************************************************)
Turn(i) == \A j \in 1..(i - 1) : pc[j] = "returned"

Next ==
    \/ \E i \in FnIds : Turn(i) /\ ParseAttrs(i)
    \/ \E i \in FnIds : Turn(i) /\ EarlyReturn(i)
    \/ \E i \in FnIds : Turn(i) /\ ParsePre(i)
    \/ \E i \in FnIds : Turn(i) /\ ParsePost(i)
    \/ \E i \in FnIds : Turn(i) /\ Collect(i)
    \/ \E i \in FnIds : Turn(i) /\ ResolvePre(i)
    \/ \E i \in FnIds : Turn(i) /\ ResolvePost(i)
    \/ \E i \in FnIds : Turn(i) /\ TyCheckPre(i)
    \/ \E i \in FnIds : Turn(i) /\ TyCheckPost(i)
    \/ \E i \in FnIds : Turn(i) /\ GenNewContext(i)
    \/ \E i \in FnIds : Turn(i) /\ SolverAssert(i)
    \/ \E i \in FnIds : Turn(i) /\ SolverCheck(i)
    \/ \E i \in FnIds : Turn(i) /\ GetModel(i)
    \/ \E i \in FnIds : Turn(i) /\ Println(i)

Spec == Init /\ [][Next]_vars

(***************************************************************************)
(* The same calls as tasks of a worker pool, one per function, their steps *)
(* interleaved in any order.                                               *)
(***************************************************************************)
TaskCatalogue ==
    { f \in Catalogue : f.name \in {"sub_ten", "no_pre", "true_post"} }

InitTasks ==
    /\ fns \in [FnIds -> TaskCatalogue]
    /\ InitLocals

NextTasks ==
    \/ \E i \in FnIds : ParseAttrs(i)
    \/ \E i \in FnIds : EarlyReturn(i)
    \/ \E i \in FnIds : ParsePre(i)
    \/ \E i \in FnIds : ParsePost(i)
    \/ \E i \in FnIds : Collect(i)
    \/ \E i \in FnIds : ResolvePre(i)
    \/ \E i \in FnIds : ResolvePost(i)
    \/ \E i \in FnIds : TyCheckPre(i)
    \/ \E i \in FnIds : TyCheckPost(i)
    \/ \E i \in FnIds : GenNewContext(i)
    \/ \E i \in FnIds : SolverAssert(i)
    \/ \E i \in FnIds : SolverCheck(i)
    \/ \E i \in FnIds : GetModel(i)
    \/ \E i \in FnIds : Println(i)

SpecTasks == InitTasks /\ [][NextTasks]_vars

(***************************************************************************)
(* Vocabulary of the properties.                                           *)
(***************************************************************************)
\* The annotation of f carries the string-valued parameter n.
Given(f, n) ==
    \E k \in 1..Len(Items(f.attrs)) :
        /\ Items(f.attrs)[k].kind = "NameValueStr"
        /\ Items(f.attrs)[k].name = n

PastParse == {"collect", "resolve_pre"}
PastResolvePre == {"resolve_post"}
PastResolve == {"ty_check_pre", "ty_check_post"}
InSolver == {"assert", "check", "get_model"}

\* gen_smtlib has been called for function i.
ReachedSolver(i) ==
    \/ pc[i] \in {"gen_smtlib", "println"} \cup InSolver
    \/ verdict[i] # "none"

\* Both conditions of i have been resolved (whatever happened afterwards).
Resolved(i) == pc[i] \in PastResolve \/ ReachedSolver(i) \/ panic[i] = "ty_check"

RECURSIVE Names(_)
Names(e) ==
    CASE e.kind = "VariableMapping" -> {e.name}
      [] e.kind = "BinaryExpression" -> Names(e.left) \cup Names(e.right)
      [] e.kind = "UnaryExpression" -> Names(e.operand)
      [] OTHER -> {}

RECURSIVE UnknownNames(_)
UnknownNames(e) ==
    CASE e.kind = "VariableMapping" ->
            IF e.ty = "Unknown" THEN {e.name} ELSE {}
      [] e.kind = "BinaryExpression" ->
            UnknownNames(e.left) \cup UnknownNames(e.right)
      [] e.kind = "UnaryExpression" -> UnknownNames(e.operand)
      [] OTHER -> {}

\* The declarations of a list that carry the name n, and the type the first
\* of them declares.
Declares(decls, n) == {k \in 1..Len(decls) : decls[k].name = n}
DeclaredType(decls, n) ==
    LET first == CHOOSE k \in Declares(decls, n) :
                     \A m \in Declares(decls, n) : k <= m
    IN TypeToEnum(decls[first].ty)

\* The variable table of the specification: arguments, variables, temporaries.
Table(f) == f.args \o f.vars \o f.temps

\* res is orig with every Unknown reference to `ret` typed by the return type
\* and every Unknown reference to a name that decls declares typed by that
\* declaration; nothing else differs.  strict: the other references are
\* unchanged too.
RECURSIVE IsLookup(_, _, _, _, _)
IsLookup(orig, res, decls, ret, strict) ==
    CASE orig.kind = "VariableMapping" ->
            /\ res.kind = "VariableMapping"
            /\ res.name = orig.name
            /\ IF orig.ty # "Unknown" THEN res.ty = orig.ty
               ELSE IF orig.name = "ret" THEN res.ty = TypeToEnum(ret)
               ELSE IF Declares(decls, orig.name) # {}
                    THEN res.ty = DeclaredType(decls, orig.name)
               ELSE strict => res.ty = orig.ty
      [] orig.kind = "BinaryExpression" ->
            /\ res.kind = "BinaryExpression"
            /\ res.op = orig.op
            /\ IsLookup(orig.left, res.left, decls, ret, strict)
            /\ IsLookup(orig.right, res.right, decls, ret, strict)
      [] orig.kind = "UnaryExpression" ->
            /\ res.kind = "UnaryExpression"
            /\ res.op = orig.op
            /\ IsLookup(orig.operand, res.operand, decls, ret, strict)
      [] OTHER -> res = orig

\* The lookup of n has to read the name of an argument that has none.
MeetsUnnamed(args, n) ==
    \E k \in 1..Len(args) :
        /\ args[k].name = NoName
        /\ \A m \in 1..(k - 1) : args[m].name # n

\* Some block of the graph is reachable from itself.
RECURSIVE ReachableFrom(_, _)
ReachableFrom(blocks, seen) ==
    LET more == seen \cup UNION {blocks[b] : b \in seen} IN
    IF more = seen THEN seen ELSE ReachableFrom(blocks, more)
HasBackEdge(blocks) ==
    \E b \in 1..Len(blocks) : b \in ReachableFrom(blocks, blocks[b])

(***************************************************************************)
(* Properties.                                                             *)
(***************************************************************************)

\* C1: a function whose annotation lacks `pre` or lacks `post` is skipped:
\* nothing of it is parsed, resolved or type-checked, the solver is not
\* called for it, and its call of run_pass raises no panic.
C1_AbsentParameterSkips ==
    \A i \in FnIds :
        (~Given(fns[i], "pre") \/ ~Given(fns[i], "post")) =>
            /\ pc[i] \in {"start", "check_empty", "returned"}
            /\ panic[i] = "none"
            /\ pre_string_expression[i] = NoExpr
            /\ post_string_expression[i] = NoExpr
            /\ ~ReachedSolver(i)

\* C2: resolution of a condition that names a variable which is neither in
\* the variable table nor `ret` fails (TypeError::UnknownVariable): it returns
\* no resolved tree, so the call never gets past resolving that condition.
C2_UnknownVariableFails ==
    \A i \in FnIds :
        /\ (pc[i] \in PastResolvePre \/ Resolved(i)) =>
              \A n \in Names(pre_string_expression[i]) :
                  n = "ret" \/ Declares(Table(fns[i]), n) # {}
        /\ Resolved(i) =>
              \A n \in Names(post_string_expression[i]) :
                  n = "ret" \/ Declares(Table(fns[i]), n) # {}

\* C3: whenever the type checker or the solver driver is given a condition,
\* no VariableMapping of its tree has the type Unknown.
C3_NoUnknownAfterResolution ==
    \A i \in FnIds :
        Resolved(i) =>
            /\ UnknownNames(pre_string_expression[i]) = {}
            /\ UnknownNames(post_string_expression[i]) = {}

C5_NoErrorIsFatal ==
    (\E i \in FnIds : pc[i] = "start") => ENABLED Next

\* C6: every verdict of the solver is turned into a result (sat: the model
\* is reported; unsat: Valid; unknown: Unknown) and none ends the call of
\* the solver driver in a panic.
C6_VerdictsAreReported ==
    \A i \in FnIds :
        /\ verdict[i] \in {"unknown", "unsat"} => panic[i] = "none"
        /\ (verdict[i] = "sat" /\ pc[i] \in {"println", "returned"}) =>
              model[i] # NoModel

\* C7: what the solver decides for a function is that function's
\* verification condition.  Two consequences: the solver's constants are
\* variables of the function (or `ret`), and a function whose postcondition
\* is the literal `true`, whose condition holds on every path, is never
\* answered with a counterexample.
C7_SolverDecidesTheFunctionsVC ==
    \A i \in FnIds :
        /\ pc[i] \in InSolver =>
              \A n \in ctxs[ctx[i]].consts :
                  n = "ret" \/ Declares(Table(fns[i]), n) # {}
        /\ (ReachedSolver(i) /\ post_string[i] = True) => verdict[i] # "sat"

\* C8: for a function whose control-flow graph has a back-edge (no loop
\* invariant can be supplied: the annotation has `pre` and `post` alone) the
\* solver driver is never called.
C8_LoopsAreUnsupported ==
    \A i \in FnIds : HasBackEdge(fns[i].blocks) => ~ReachedSolver(i)

\* C9: a call of the solver driver works on a context of its own: at every
\* moment, under any interleaving of the tasks, its solver holds exactly the
\* assertions the call itself has made, its context the constants the call
\* has declared, and no other task holds the same context.
C9_ContextsAreNotShared ==
    \A i \in FnIds :
        pc[i] \in InSolver =>
            /\ ctx[i] \in DOMAIN ctxs
            /\ ctxs[ctx[i]].assertions = SubSeq(GenAssertions, 1, asserted[i])
            /\ ctxs[ctx[i]].consts = GenConsts
            /\ \A j \in FnIds \ {i} : ctx[j] # ctx[i]

\* C9, witness: two tasks are in the solver driver at once, one about to
\* check its four assertions, the other having made one.
C9_Witness ==
    \E i, j \in FnIds :
        /\ i # j
        /\ pc[i] = "check"
        /\ pc[j] = "assert"
        /\ asserted[j] = 1

\* C10: the steps of one call come in the order parse, resolve, type-check,
\* solve: conditions are resolved only once both are parsed, type-checked
\* only once both are resolved, and the solver driver is called only once
\* both are parsed, resolved and found well-typed.
C10_SolverOnlyAfterChecks ==
    \A i \in FnIds :
        /\ pc[i] \in PastParse =>
              /\ pre_string_expression[i] = ParseCondition(pre_string[i]).e
              /\ post_string_expression[i] = ParseCondition(post_string[i]).e
        /\ (Resolved(i) /\ ParseCondition(pre_string[i]).ok
                        /\ ParseCondition(post_string[i]).ok) =>
              /\ pre_string_expression[i] =
                     WalkAndReplace(ParseCondition(pre_string[i]).e,
                                    MirData(fns[i]))
              /\ post_string_expression[i] =
                     WalkAndReplace(ParseCondition(post_string[i]).e,
                                    MirData(fns[i]))
        /\ ReachedSolver(i) =>
              /\ ParseCondition(pre_string[i]).ok
              /\ ParseCondition(post_string[i]).ok
              /\ TyCheck(pre_string_expression[i]).ok
              /\ TyCheck(post_string_expression[i]).ok

\* C10, witness: the solver is about to check the assertions made for a
\* function with both conditions.
C10_Witness ==
    \E i \in FnIds :
        /\ pc[i] = "check"
        /\ pre_string[i] # <<>>
        /\ post_string[i] # <<>>

====
